---- MODULE Spec2Model ----
(***************************************************************************)
(* A model of app/main.py of dev-workflows: the week normalizer            *)
(* (monday_of_week, parse_week_start), the plan store (fetch_plan,         *)
(* upsert_plan behind ui_save_plan) and the contact store                  *)
(* (ensure_contacts_table, fetch_contacts, insert_contact behind           *)
(* ui_add_contact).                                                        *)
(*                                                                         *)
(* Text is a sequence of one-character strings, so that trimming,          *)
(* lower-casing, formatting and parsing are computed, not assumed.         *)
(* A date is a record [year, month, day], as datetime.date holds it.       *)
(***************************************************************************)
EXTENDS Integers, Sequences, FiniteSets, TLC

\* ------------------------------------------------------------------ bounds

\* The last of the two consecutive modern years whose every day is an input.
LastYear == 2024

\* How many requests the store specifications take up in all.
MaxRequests == 3

\* ------------------------------------------------------------ text helpers

\* Python's None where a text is optional: a one-element sequence whose
\* element is no single character, so it equals no text.
None == <<"None">>

Digits == <<"0", "1", "2", "3", "4", "5", "6", "7", "8", "9">>

IsDigit(c) == \E i \in 1..10 : Digits[i] = c

DigitVal(c) == (CHOOSE i \in 1..10 : Digits[i] = c) - 1

\* int() of a run of decimal digits.
RECURSIVE IntOf(_)
IntOf(s) ==
    IF s = <<>> THEN 0
    ELSE 10 * IntOf(SubSeq(s, 1, Len(s) - 1)) + DigitVal(s[Len(s)])

Pow10(k) == CASE k = 0 -> 1 [] k = 1 -> 10 [] k = 2 -> 100 [] k = 3 -> 1000

\* n in decimal, zero-padded to w digits.
Pad(n, w) == [i \in 1..w |-> Digits[((n \div Pow10(w - i)) % 10) + 1]]

\* ------------------------------------------------------- datetime.date

IsLeap(y) == y % 4 = 0 /\ (y % 100 # 0 \/ y % 400 = 0)

DaysInMonth(y, m) ==
    CASE m = 2 -> IF IsLeap(y) THEN 29 ELSE 28
      [] m \in {4, 6, 9, 11} -> 30
      [] OTHER -> 31

DaysBeforeYear(y) ==
    (y - 1) * 365 + (y - 1) \div 4 - (y - 1) \div 100 + (y - 1) \div 400

RECURSIVE DaysBeforeMonth(_, _)
DaysBeforeMonth(y, m) ==
    IF m = 1 THEN 0 ELSE DaysBeforeMonth(y, m - 1) + DaysInMonth(y, m - 1)

\* date(y, m, d) is accepted (no ValueError) exactly for these.
ValidDate(y, m, d) ==
    /\ y >= 1 /\ y <= 9999
    /\ m >= 1 /\ m <= 12
    /\ d >= 1 /\ d <= DaysInMonth(y, m)

Date(y, m, d) == [year |-> y, month |-> m, day |-> d]

\* date.toordinal(): 0001-01-01 is day 1.
toordinal(d) == DaysBeforeYear(d.year) + DaysBeforeMonth(d.year, d.month) + d.day

MaxOrdinal == toordinal(Date(9999, 12, 31))

\* The year holding ordinal n. No year is shorter than 365 days, so the year
\* is at most (n - 1) \div 365 + 1; the search walks down from that estimate.
RECURSIVE YearOf(_, _)
YearOf(n, y) == IF DaysBeforeYear(y) < n THEN y ELSE YearOf(n, y - 1)

RECURSIVE MonthOf(_, _, _)
MonthOf(y, rest, m) ==
    IF rest <= DaysInMonth(y, m) THEN m
    ELSE MonthOf(y, rest - DaysInMonth(y, m), m + 1)

\* date.fromordinal(n), for 1 <= n <= MaxOrdinal.
fromordinal(n) ==
    LET y == YearOf(n, (n - 1) \div 365 + 1)
        r == n - DaysBeforeYear(y)
        m == MonthOf(y, r, 1)
    IN  Date(y, m, r - DaysBeforeMonth(y, m))

\* date.weekday(): Monday is 0, Sunday is 6.
weekday(d) == (toordinal(d) + 6) % 7

\* date.__le__ and date.__lt__: the (year, month, day) triples compared.
DateLT(a, b) ==
    \/ a.year < b.year
    \/ a.year = b.year /\ a.month < b.month
    \/ a.year = b.year /\ a.month = b.month /\ a.day < b.day

DateLE(a, b) == a = b \/ DateLT(a, b)

NoDate == Date(0, 0, 0)

\* A returned date, or the exception that left the function instead.
Ok(v) == [raised |-> FALSE, exc |-> "", value |-> v]

Raise(e) == [raised |-> TRUE, exc |-> e, value |-> NoDate]

\* date - timedelta(days=k): OverflowError outside date.min .. date.max.
DateMinusDays(d, k) ==
    LET n == toordinal(d) - k
    IN  IF n < 1 \/ n > MaxOrdinal THEN Raise("OverflowError")
        ELSE Ok(fromordinal(n))

\* ---------------------------------------------------- week normalizer

\* monday_of_week with the week begun on Sunday.
monday_of_week_SundayStart(d) == DateMinusDays(d, (weekday(d) + 1) % 7)

monday_of_week(d) == DateMinusDays(d, weekday(d))

NonZeroDigit(c) == IsDigit(c) /\ c # "0"

\* The lengths, in the order the pattern tries them, of the alternatives of
\* %m (1[0-2]|0[1-9]|[1-9]) that match at the start of s.
MonthLens(s) ==
    (IF Len(s) >= 2 /\ s[1] = "1" /\ s[2] \in {"0", "1", "2"} THEN <<2>> ELSE <<>>)
    \o (IF Len(s) >= 2 /\ s[1] = "0" /\ NonZeroDigit(s[2]) THEN <<2>> ELSE <<>>)
    \o (IF Len(s) >= 1 /\ NonZeroDigit(s[1]) THEN <<1>> ELSE <<>>)

\* The same for %d (3[01]|[12]\d|0[1-9]|[1-9]| [1-9]).
DayLens(s) ==
    (IF Len(s) >= 2 /\ s[1] = "3" /\ s[2] \in {"0", "1"} THEN <<2>> ELSE <<>>)
    \o (IF Len(s) >= 2 /\ s[1] \in {"1", "2"} /\ IsDigit(s[2]) THEN <<2>> ELSE <<>>)
    \o (IF Len(s) >= 2 /\ s[1] = "0" /\ NonZeroDigit(s[2]) THEN <<2>> ELSE <<>>)
    \o (IF Len(s) >= 1 /\ NonZeroDigit(s[1]) THEN <<1>> ELSE <<>>)
    \o (IF Len(s) >= 2 /\ s[1] = " " /\ NonZeroDigit(s[2]) THEN <<2>> ELSE <<>>)

Drop(s, k) == SubSeq(s, k + 1, Len(s))

\* int() of a matched group: surrounding blanks are ignored.
GroupInt(s) == IntOf(SelectSeq(s, IsDigit))

\* datetime.strptime(s, "%Y-%m-%d").date(): the pattern is matched at the
\* start of s, what it leaves unmatched is an error, and so is a day the
\* month does not have. Every failure is a ValueError.
strptime(s) ==
    IF ~(Len(s) >= 5 /\ (\A i \in 1..4 : IsDigit(s[i])) /\ s[5] = "-")
    THEN Raise("ValueError")
    ELSE
      LET r  == Drop(s, 5)
          ms == MonthLens(r)
          \* the month alternatives after which "-" and a day follow
          ok == {i \in 1..Len(ms) :
                    /\ Len(r) > ms[i]
                    /\ r[ms[i] + 1] = "-"
                    /\ DayLens(Drop(r, ms[i] + 1)) # <<>>}
      IN  IF ok = {} THEN Raise("ValueError")
          ELSE
            LET i  == CHOOSE j \in ok : \A k \in ok : j <= k
                dr == Drop(r, ms[i] + 1)
                dl == DayLens(dr)[1]
                y  == GroupInt(SubSeq(s, 1, 4))
                m  == GroupInt(SubSeq(r, 1, ms[i]))
                d  == GroupInt(SubSeq(dr, 1, dl))
            IN  IF Len(dr) # dl THEN Raise("ValueError")
                ELSE IF ~ValidDate(y, m, d) THEN Raise("ValueError")
                ELSE Ok(Date(y, m, d))

\* parse_week_start returning the parsed date as it is.
parse_week_start_AsGiven(value, now_date) ==
    IF value = None \/ value = <<>> THEN monday_of_week(now_date)
    ELSE
      LET p == strptime(value)
      IN  IF ~p.raised THEN p
          ELSE IF p.exc = "ValueError" THEN monday_of_week(now_date)
          ELSE p

\* parse_week_start without its except clause.
parse_week_start_NoExcept(value, now_date) ==
    IF value = None \/ value = <<>> THEN monday_of_week(now_date)
    ELSE
      LET p == strptime(value)
      IN  IF ~p.raised THEN monday_of_week(p.value) ELSE p

\* parse_week_start(value), on a day whose date.today() is `now_date`.
parse_week_start(value, now_date) ==
    IF value = None \/ value = <<>> THEN monday_of_week(now_date)
    ELSE
      LET p == strptime(value)
      IN  IF ~p.raised THEN monday_of_week(p.value)
          ELSE IF p.exc = "ValueError" THEN monday_of_week(now_date)
          ELSE p

\* ------------------------------------------------------------- state

VARIABLES
    today,          \* date.today(), the server's local date
    call,           \* the normalizer call under test: the function and its argument
    result,         \* what that call returned or raised
    wpc,            \* "ready" before the call, "returned" after it
    now,            \* the database clock: now() of the latest transaction
    weekly_plans,   \* the committed rows of public.weekly_plans
    pc,             \* per request worker: where it stands in its store operation
    req,            \* per request worker: the operation and its arguments
    ret,            \* per request worker: what the operation returned or raised
    started,        \* how many requests have been taken up
    contacts_table, \* whether public.contacts exists
    contacts,       \* the committed rows of public.contacts
    cpc,            \* where the contact request stands
    creq,           \* the contact operation and its arguments
    cret,           \* what the contact operation returned or raised
    snap            \* the persisted contact state when the operation began

wvars == <<call, result, wpc>>

pvars == <<weekly_plans, pc, req, ret>>

cvars == <<contacts_table, contacts, cpc, creq, cret, snap>>

vars == <<today, now, started, wvars, pvars, cvars>>

\* ------------------------------------------------------- plan store rows

Text(c) == <<c>>

\* The four text fields of a plan, each a text or None.
Fields(o, a, b, r) == [objectives |-> o, actions |-> a, objections |-> b, recap |-> r]

NoFields == Fields(None, None, None, None)

Workers == {1, 2}

NoReq ==
    [op |-> "none", account_id |-> "", week_start |-> NoDate,
     fields |-> NoFields, ts |-> 0]

\* What a store operation handed back: the fetched fields, or an exception.
Returned(f) == [raised |-> FALSE, exc |-> "", value |-> f]

Failed(e) == [raised |-> TRUE, exc |-> e, value |-> NoFields]

PlanStoreAtRest ==
    /\ weekly_plans = {}
    /\ pc = [p \in Workers |-> "idle"]
    /\ req = [p \in Workers |-> NoReq]
    /\ ret = [p \in Workers |-> Returned(NoFields)]

NoContactReq ==
    [op |-> "none", account_id |-> "", name |-> None, role_text |-> None,
     role |-> None, phone |-> None, email |-> None, notes |-> None]

\* What a contact operation handed back: the listed contacts, or an exception.
Listed(s) == [raised |-> FALSE, exc |-> "", value |-> s]

ContactFailed(e) == [raised |-> TRUE, exc |-> e, value |-> <<>>]

ContactStoreAtRest ==
    /\ contacts = {}
    /\ cpc = "idle"
    /\ creq = NoContactReq
    /\ cret = Listed(<<>>)
    /\ snap = [contacts_table |-> contacts_table, contacts |-> {}]

\* ------------------------------------------------ the normalizer, called

Years == {1, 9999} \cup {LastYear - 1, LastYear}

Dates ==
    {d \in {Date(y, m, n) : y \in Years, m \in 1..12, n \in 1..31} :
        ValidDate(d.year, d.month, d.day)}

\* "YYYY-MM-DD", as ws.strftime("%Y-%m-%d") writes a date of a four-digit year.
Iso(d) == Pad(d.year, 4) \o <<"-">> \o Pad(d.month, 2) \o <<"-">> \o Pad(d.day, 2)

YYYY == Pad(LastYear, 4)

\* Texts that name no calendar date in the "%Y-%m-%d" form.
Malformed ==
    { None,
      <<>>,
      <<"n", "o", "t", "-", "a", "-", "d", "a", "t", "e">>,
      YYYY \o <<"-", "0", "2", "-", "3", "0">>,
      YYYY \o <<"-", "1", "3", "-", "0", "1">>,
      YYYY \o <<"-", "0", "0", "-", "1", "0">>,
      YYYY \o <<"-", "0", "1", "-", "0", "0">>,
      YYYY \o <<"-", "0", "1", "-", "3", "2">>,
      YYYY \o <<"-", "0", "1", "-", "0", "5", " ">>,
      <<" ">> \o YYYY \o <<"-", "0", "1", "-", "0", "5">>,
      YYYY \o <<"-", "0", "1", "-", "0", "5", "x">>,
      YYYY \o <<"-", "1", "-", "3", "1", "5">>,
      YYYY \o <<"-", "0", "1">>,
      YYYY \o <<"0", "1", "0", "5">>,
      YYYY \o <<"/", "0", "1", "/", "0", "5">>,
      <<"0", "0", "0", "0", "-", "0", "1", "-", "0", "1">>,
      <<"1", "9", "0", "0", "-", "0", "2", "-", "2", "9">>,
      <<"9", "9", "9", "9", "-", "0", "2", "-", "2", "9">>,
      <<"2", "4", "-", "0", "1", "-", "0", "5">> }

\* Texts that name a date without the zero padding of Iso.
Unpadded ==
    { [fn |-> "parse_week_start", d |-> Date(LastYear, 2, 9),
       s |-> YYYY \o <<"-", "2", "-", "9">>],
      [fn |-> "parse_week_start", d |-> Date(LastYear, 2, 9),
       s |-> YYYY \o <<"-", "0", "2", "-", " ", "9">>] }

\* The calls of the normalizer: monday_of_week on a date d; parse_week_start
\* on a text s, where d is the date s names (NoDate when it names none).
Calls ==
    {[fn |-> "monday_of_week", d |-> d, s |-> None] : d \in Dates}
    \cup {[fn |-> "parse_week_start", d |-> d, s |-> Iso(d)] : d \in Dates}
    \cup {[fn |-> "parse_week_start", d |-> NoDate, s |-> s] : s \in Malformed}
    \cup Unpadded

\* One day of each weekday.
Todays == {Date(LastYear, 3, n) : n \in 1..7}

InitWeek ==
    /\ today \in Todays
    /\ call \in Calls
    /\ result = Ok(NoDate)
    /\ wpc = "ready"
    /\ now = 0
    /\ started = 0
    /\ PlanStoreAtRest
    /\ contacts_table = FALSE
    /\ ContactStoreAtRest

CallMondayOfWeek ==
    /\ wpc = "ready"
    /\ call.fn = "monday_of_week"
    /\ result' = monday_of_week(call.d)
    /\ wpc' = "returned"
    /\ UNCHANGED <<today, now, started, call, pvars, cvars>>

CallParseWeekStart ==
    /\ wpc = "ready"
    /\ call.fn = "parse_week_start"
    /\ result' = parse_week_start(call.s, today)
    /\ wpc' = "returned"
    /\ UNCHANGED <<today, now, started, call, pvars, cvars>>

NextWeek == CallMondayOfWeek \/ CallParseWeekStart

SpecWeek == InitWeek /\ [][NextWeek]_vars

\* C1: for every calendar date d, monday_of_week(d), and parse_week_start on
\* the YYYY-MM-DD text of d, return (without raising) a date w with w <= d,
\* d - w < 7 days and w a Monday (weekday 0).
C1_MondayOnOrBefore ==
    (wpc = "returned" /\ call.d # NoDate) =>
        /\ ~result.raised
        /\ DateLE(result.value, call.d)
        /\ toordinal(call.d) - toordinal(result.value) < 7
        /\ toordinal(call.d) - toordinal(result.value) >= 0
        /\ weekday(result.value) = 0

\* The text of a Sunday has been parsed to the Monday six days before it,
\* in the month before.
C1_Witness ==
    /\ wpc = "returned" /\ call.fn = "parse_week_start"
    /\ call.d # NoDate /\ weekday(call.d) = 6
    /\ ~result.raised
    /\ result.value.month # call.d.month
    /\ toordinal(call.d) - toordinal(result.value) = 6

\* C5: parse_week_start never raises, and for an absent, empty or malformed
\* text it returns the Monday of today's date, which is what normalizing
\* today's date gives.
C5_MalformedIsThisWeek ==
    (wpc = "returned" /\ call.fn = "parse_week_start") =>
        /\ ~result.raised
        /\ call.d = NoDate =>
              /\ result = monday_of_week(today)
              /\ result = parse_week_start(Iso(today), today)
              /\ weekday(result.value) = 0
              /\ DateLE(result.value, today)
              /\ toordinal(today) - toordinal(result.value) < 7

\* A text that is no date has been normalized on a day that is no Monday.
C5_Witness ==
    /\ wpc = "returned"
    /\ call.s = <<"n", "o", "t", "-", "a", "-", "d", "a", "t", "e">>
    /\ weekday(today) # 0
    /\ result = monday_of_week(today)

\* ------------------------------------------------------------ plan store

\* The rows of public.accounts (their ids), which this program only reads.
Accounts == {"A1", "A2"}

\* Well-formed account ids: those of Accounts and one that names no account.
AccountIds == Accounts \cup {"A9"}

\* The account whose plan page the save-plan requests come from.
SaveAccounts == {"A1"}

Key(r) == <<r.account_id, r.week_start>>

Row(a, w, f, ts) ==
    [account_id |-> a, week_start |-> w,
     objectives |-> f.objectives, actions |-> f.actions,
     objections |-> f.objections, recap |-> f.recap,
     updated_at |-> ts]

FieldsOf(r) == Fields(r.objectives, r.actions, r.objections, r.recap)

\* upsert_plan's statement without its on conflict clause, on a table
\* without the unique key.
upsert_plan_InsertOnly(T, r) == T \cup {r}

\* upsert_plan's statement keeping a field the call leaves None
\* (coalesce(excluded.f, f)).
upsert_plan_Merge(T, r) ==
    LET keep(new, old) == IF new = None THEN old ELSE new
    IN  IF \E q \in T : Key(q) = Key(r)
        THEN {IF Key(q) = Key(r)
                THEN [q EXCEPT !.objectives = keep(r.objectives, q.objectives),
                               !.actions = keep(r.actions, q.actions),
                               !.objections = keep(r.objections, q.objections),
                               !.recap = keep(r.recap, q.recap),
                               !.updated_at = r.updated_at]
                ELSE q : q \in T}
        ELSE T \cup {r}

\* upsert_plan's statement with the conflict taken on account_id alone.
upsert_plan_ConflictOnAccount(T, r) ==
    IF \E q \in T : q.account_id = r.account_id
    THEN {IF q.account_id = r.account_id
            THEN [q EXCEPT !.objectives = r.objectives,
                           !.actions = r.actions,
                           !.objections = r.objections,
                           !.recap = r.recap,
                           !.updated_at = r.updated_at]
            ELSE q : q \in T}
    ELSE T \cup {r}

\* insert ... on conflict (account_id, week_start) do update set ...: the
\* statement of upsert_plan applied to the committed rows T. A row it
\* inserts takes updated_at from the column's default, taken as now().
upsert_plan(T, r) ==
    IF \E q \in T : Key(q) = Key(r)
    THEN {IF Key(q) = Key(r)
            THEN [q EXCEPT !.objectives = r.objectives,
                           !.actions = r.actions,
                           !.objections = r.objections,
                           !.recap = r.recap,
                           !.updated_at = r.updated_at]
            ELSE q : q \in T}
    ELSE T \cup {r}

\* fetch_plan indexing the fetched row without "if row else None".
fetch_plan_NoGuard(T, a, w) ==
    LET rows == {q \in T : q.account_id = a /\ q.week_start = w}
    IN  IF rows = {} THEN {Failed("TypeError")}
        ELSE {Returned(FieldsOf(q)) : q \in rows}

\* select ... where account_id = a and week_start = w limit 1; fetchone():
\* every result the statement can give on the committed rows T, a row's
\* fields or, through "if row else None", four Nones.
fetch_plan(T, a, w) ==
    LET rows == {q \in T : q.account_id = a /\ q.week_start = w}
    IN  IF rows = {} THEN {Returned(NoFields)}
        ELSE {Returned(FieldsOf(q)) : q \in rows}

\* The week_start form values of the save-plan requests: empty, malformed,
\* a Wednesday and the Monday of one week, and a Sunday.
WeekTexts ==
    { <<>>,
      <<"n", "o", "t", "-", "a", "-", "d", "a", "t", "e">>,
      Iso(Date(LastYear, 1, 10)),
      Iso(fromordinal(toordinal(Date(LastYear, 1, 10)) - weekday(Date(LastYear, 1, 10)))),
      Iso(Date(LastYear, 3, 3)) }

\* The week_start dates fetch_plan is called with (ui_account passes what
\* parse_week_start returned).
WeekStarts ==
    {parse_week_start(s, d).value : s \in WeekTexts, d \in {Date(LastYear, 3, 3)}}

FieldsX == Fields(Text("g"), Text("c"), Text("p"), Text("r"))

FieldsY == Fields(Text("G"), Text("C"), Text("P"), Text("R"))

\* Absent and empty fields, and one field that FieldsX has too.
FieldsZ == Fields(None, <<>>, None, Text("r"))

PlanFields == {FieldsX, FieldsY, FieldsZ}

InitPlans ==
    /\ today = Date(LastYear, 3, 3)
    /\ call = [fn |-> "none", d |-> NoDate, s |-> None]
    /\ result = Ok(NoDate)
    /\ wpc = "off"
    /\ now = 0
    /\ started = 0
    /\ PlanStoreAtRest
    /\ contacts_table = FALSE
    /\ ContactStoreAtRest

\* ui_save_plan up to upsert_plan's psycopg.connect(): the week is
\* normalized and a connection is open.
ui_save_plan(p, a, text, f) ==
    LET ws == parse_week_start(text, today)
    IN  /\ pc[p] = "idle"
        /\ started < MaxRequests
        /\ started' = started + 1
        /\ IF ws.raised
             THEN /\ pc' = [pc EXCEPT ![p] = "done"]
                  /\ req' = [req EXCEPT ![p] = [NoReq EXCEPT !.op = "save"]]
                  /\ ret' = [ret EXCEPT ![p] = Failed(ws.exc)]
             ELSE /\ pc' = [pc EXCEPT ![p] = "connected"]
                  /\ req' = [req EXCEPT ![p] =
                        [op |-> "save", account_id |-> a, week_start |-> ws.value,
                         fields |-> f, ts |-> 0]]
                  /\ ret' = [ret EXCEPT ![p] = Returned(NoFields)]
        /\ UNCHANGED <<today, wvars, cvars, now, weekly_plans>>

\* cur.execute() of upsert_plan: the transaction begins and the statement
\* runs. A transaction that has written the same key and has not ended
\* holds the row; the statement waits for it.
UpsertExecute(p) ==
    /\ pc[p] = "connected"
    /\ req[p].op = "save"
    /\ \A q \in Workers \ {p} :
          ~(pc[q] = "executed" /\ Key(req[q]) = Key(req[p]))
    /\ now' = now + 1
    /\ req' = [req EXCEPT ![p].ts = now + 1]
    /\ pc' = [pc EXCEPT ![p] = "executed"]
    /\ UNCHANGED <<today, wvars, cvars, weekly_plans, ret, started>>

\* conn.commit() of upsert_plan: the statement's effect becomes the
\* committed state, and ui_save_plan answers with its redirect.
UpsertCommit(p) ==
    /\ pc[p] = "executed"
    /\ weekly_plans' =
          upsert_plan(weekly_plans,
                 Row(req[p].account_id, req[p].week_start, req[p].fields, req[p].ts))
    /\ pc' = [pc EXCEPT ![p] = "done"]
    /\ ret' = [ret EXCEPT ![p] = Returned(NoFields)]
    /\ UNCHANGED <<today, wvars, cvars, now, req, started>>

\* A connection or query failure at execute or commit: the with
\* block rolls the transaction back and the exception leaves the handler.
StoreFails(p) ==
    /\ pc[p] \in {"connected", "executed"}
    /\ pc' = [pc EXCEPT ![p] = "done"]
    /\ ret' = [ret EXCEPT ![p] = Failed("OperationalError")]
    /\ UNCHANGED <<today, wvars, cvars, now, weekly_plans, req, started>>

\* psycopg.connect() of upsert_plan fails: nothing was sent to the store.
ui_save_plan_ConnectFails(p, a, text, f) ==
    LET ws == parse_week_start(text, today)
    IN  /\ pc[p] = "idle"
        /\ started < MaxRequests
        /\ ~ws.raised
        /\ started' = started + 1
        /\ pc' = [pc EXCEPT ![p] = "done"]
        /\ req' = [req EXCEPT ![p] =
              [op |-> "save", account_id |-> a, week_start |-> ws.value,
               fields |-> f, ts |-> 0]]
        /\ ret' = [ret EXCEPT ![p] = Failed("OperationalError")]
        /\ UNCHANGED <<today, wvars, cvars, now, weekly_plans>>

\* fetch_plan up to psycopg.connect().
FetchPlanConnect(p, a, w) ==
    /\ pc[p] = "idle"
    /\ started < MaxRequests
    /\ started' = started + 1
    /\ pc' = [pc EXCEPT ![p] = "connected"]
    /\ req' = [req EXCEPT ![p] =
          [op |-> "get", account_id |-> a, week_start |-> w,
           fields |-> NoFields, ts |-> 0]]
    /\ ret' = [ret EXCEPT ![p] = Returned(NoFields)]
    /\ UNCHANGED <<today, wvars, cvars, now, weekly_plans>>

\* psycopg.connect() of fetch_plan fails.
FetchPlanConnectFails(p, a, w) ==
    /\ pc[p] = "idle"
    /\ started < MaxRequests
    /\ started' = started + 1
    /\ pc' = [pc EXCEPT ![p] = "done"]
    /\ req' = [req EXCEPT ![p] =
          [op |-> "get", account_id |-> a, week_start |-> w,
           fields |-> NoFields, ts |-> 0]]
    /\ ret' = [ret EXCEPT ![p] = Failed("OperationalError")]
    /\ UNCHANGED <<today, wvars, cvars, now, weekly_plans>>

\* The select of fetch_plan and its return.
FetchPlanExecute(p) ==
    /\ pc[p] = "connected"
    /\ req[p].op = "get"
    /\ \E r \in fetch_plan(weekly_plans, req[p].account_id, req[p].week_start) :
          ret' = [ret EXCEPT ![p] = r]
    /\ pc' = [pc EXCEPT ![p] = "done"]
    /\ UNCHANGED <<today, wvars, cvars, now, weekly_plans, req, started>>

\* The response leaves; the worker is free for the next request.
Respond(p) ==
    /\ pc[p] = "done"
    /\ pc' = [pc EXCEPT ![p] = "idle"]
    /\ req' = [req EXCEPT ![p] = NoReq]
    /\ ret' = [ret EXCEPT ![p] = Returned(NoFields)]
    /\ UNCHANGED <<today, wvars, cvars, now, weekly_plans, started>>

Next ==
    \/ \E p \in Workers, a \in SaveAccounts, text \in WeekTexts, f \in PlanFields :
          ui_save_plan(p, a, text, f)
    \/ \E p \in Workers, a \in SaveAccounts, text \in WeekTexts, f \in PlanFields :
          ui_save_plan_ConnectFails(p, a, text, f)
    \/ \E p \in Workers : UpsertExecute(p)
    \/ \E p \in Workers : UpsertCommit(p)
    \/ \E p \in Workers : StoreFails(p)
    \/ \E p \in Workers, a \in AccountIds, w \in WeekStarts : FetchPlanConnect(p, a, w)
    \/ \E p \in Workers, a \in AccountIds, w \in WeekStarts :
          FetchPlanConnectFails(p, a, w)
    \/ \E p \in Workers : FetchPlanExecute(p)
    \/ \E p \in Workers : Respond(p)

Spec == InitPlans /\ [][Next]_vars

\* The step in which worker p's upsert_plan commits.
CommitStep(p) == pc[p] = "executed" /\ pc'[p] = "done" /\ ~ret'[p].raised

RowsAt(T, k) == {q \in T : Key(q) = k}

SavedOk(p) == pc[p] = "done" /\ req[p].op = "save" /\ ~ret[p].raised

\* C2: under any interleaving of concurrent upsert_plan calls, every store
\* state holds at most one row per (account_id, week_start), and the store
\* changes only by one call's commit writing all four fields of its key's
\* row from that call's arguments, every other row staying as it was: no
\* row mixes the fields of two calls.
C2_OneRowPerKeyFromOneCall ==
    /\ [](\A q, r \in weekly_plans : Key(q) = Key(r) => q = r)
    /\ [][weekly_plans' # weekly_plans =>
            \E p \in Workers :
                /\ CommitStep(p)
                /\ \A q \in weekly_plans' :
                      IF Key(q) = Key(req[p])
                      THEN FieldsOf(q) = req[p].fields
                      ELSE q \in weekly_plans
                /\ \A q \in weekly_plans :
                      Key(q) # Key(req[p]) => q \in weekly_plans']_vars

\* Two upserts of different fields meet on a key that already has a row:
\* one has written and not committed, the other waits.
C2_Witness ==
    \E p, q \in Workers :
        /\ pc[p] = "executed" /\ pc[q] = "connected" /\ req[q].op = "save"
        /\ Key(req[p]) = Key(req[q])
        /\ req[p].fields # req[q].fields
        /\ \E r \in weekly_plans :
              Key(r) = Key(req[p]) /\ FieldsOf(r) \notin {req[p].fields, req[q].fields}

WithoutTimestamps(T) == {[r EXCEPT !.updated_at = 0] : r \in T}

\* C3: when upsert(a, w, Y) commits, whatever upsert wrote the key before,
\* the store holds exactly one row for (a, w) and get(a, w) returns exactly
\* the four fields of Y; and when the row already held Y, the store differs
\* from the one before in update timestamps only.
C3_UpsertIsFullReplace ==
    [][\A p \in Workers : CommitStep(p) =>
          LET a == req[p].account_id
              w == req[p].week_start
              Y == req[p].fields
          IN  /\ Cardinality(RowsAt(weekly_plans', <<a, w>>)) = 1
              /\ fetch_plan(weekly_plans', a, w) = {Returned(Y)}
              /\ (\E r \in weekly_plans : Key(r) = <<a, w>> /\ FieldsOf(r) = Y) =>
                    WithoutTimestamps(weekly_plans') = WithoutTimestamps(weekly_plans)]_vars

\* upsert X and then upsert Y, X # Y, on one key have both committed; the
\* row is Y's.
C3_Witness ==
    \E p, q \in Workers :
        /\ SavedOk(p) /\ SavedOk(q)
        /\ Key(req[p]) = Key(req[q])
        /\ req[q].ts < req[p].ts
        /\ req[q].fields = FieldsX /\ req[p].fields = FieldsZ
        /\ fetch_plan(weekly_plans, req[p].account_id, req[p].week_start)
             = {Returned(FieldsZ)}

\* C4: after any sequence of save-plan requests, whatever their week_start
\* texts, every row of weekly_plans has a Monday as week_start.
C4_WeekStartIsMonday == \A r \in weekly_plans : weekday(r.week_start) = 0

\* Rows exist for the week only empty, malformed and Sunday texts lead to
\* and for the week a Wednesday text leads to.
C4_Witness ==
    /\ \E r \in weekly_plans : r.week_start = monday_of_week(today).value
    /\ \E r \in weekly_plans :
          r.week_start = monday_of_week(Date(LastYear, 1, 10)).value

\* C6: a committing upsert(a, w1, X) leaves get(a, w2) as it was for every
\* week w2 # w1, whether (a, w2) has a row or none.
C6_OtherWeeksUnaffected ==
    [][\A p \in Workers : CommitStep(p) =>
          \A w2 \in WeekStarts \cup {r.week_start : r \in weekly_plans \cup weekly_plans'} :
              w2 # req[p].week_start =>
                  fetch_plan(weekly_plans', req[p].account_id, w2)
                    = fetch_plan(weekly_plans, req[p].account_id, w2)]_vars

\* An upsert has committed on (a, w1) after the row of (a, w2) was written.
C6_Witness ==
    \E p \in Workers :
        /\ SavedOk(p)
        /\ \E r1, r2 \in weekly_plans :
              /\ Key(r1) = Key(req[p]) /\ r1.updated_at = req[p].ts
              /\ r2.account_id = r1.account_id
              /\ r2.week_start # r1.week_start
              /\ r2.updated_at < r1.updated_at

\* C10: fetch_plan on a key with no row, of an account that exists or not,
\* returns four Nones, raises nothing but a storage failure, and leaves the
\* store as it was.
C10_MissingRowIsAllNone ==
    [][\A p \in Workers :
          ( /\ req'[p].op = "get"
            /\ pc[p] \in {"idle", "connected"}
            /\ pc'[p] = "done"
            /\ RowsAt(weekly_plans, Key(req'[p])) = {} ) =>
              /\ weekly_plans' = weekly_plans
              /\ IF ret'[p].raised THEN ret'[p].exc = "OperationalError"
                  ELSE ret'[p] = Returned(NoFields)]_vars

\* A get of the account that does not exist has returned four Nones from a
\* store that holds rows.
C10_Witness ==
    \E p \in Workers :
        /\ pc[p] = "done" /\ req[p].op = "get" /\ req[p].account_id \notin Accounts
        /\ ret[p] = Returned(NoFields)
        /\ weekly_plans # {}

\* ---------------------------------------------------------- contact store

IsSpace(c) == c \in {" ", "\t", "\n", "\r"}

RECURSIVE lstrip(_)
lstrip(s) == IF s # <<>> /\ IsSpace(s[1]) THEN lstrip(Drop(s, 1)) ELSE s

RECURSIVE rstrip(_)
rstrip(s) ==
    IF s # <<>> /\ IsSpace(s[Len(s)]) THEN rstrip(SubSeq(s, 1, Len(s) - 1)) ELSE s

\* str.strip()
strip(s) == rstrip(lstrip(s))

Uppercase ==
    <<"A", "B", "C", "D", "E", "F", "G", "H", "I", "J", "K", "L", "M",
      "N", "O", "P", "Q", "R", "S", "T", "U", "V", "W", "X", "Y", "Z">>

Lowercase ==
    <<"a", "b", "c", "d", "e", "f", "g", "h", "i", "j", "k", "l", "m",
      "n", "o", "p", "q", "r", "s", "t", "u", "v", "w", "x", "y", "z">>

LowerChar(c) ==
    IF \E i \in 1..26 : Uppercase[i] = c
    THEN Lowercase[CHOOSE i \in 1..26 : Uppercase[i] = c]
    ELSE c

\* str.lower()
lower(s) == [i \in 1..Len(s) |-> LowerChar(s[i])]

Buyer == <<"b", "u", "y", "e", "r">>

Manager == <<"m", "a", "n", "a", "g", "e", "r">>

Owner == <<"o", "w", "n", "e", "r">>

AllowedRoles == {Buyer, Manager, Owner}

\* The role of ui_add_contact without the fallback to buyer.
role_allowlist_NoFallback(role) == lower(strip(IF role = None THEN <<>> ELSE role))

\* The role allowlist of ui_add_contact: the role it passes to insert_contact.
role_allowlist(role) ==
    LET r == lower(strip(IF role = None THEN <<>> ELSE role))
    IN  IF r \notin AllowedRoles THEN Buyer ELSE r

\* The role form values of the add-contact requests, each with the role the
\* contact is to be stored with.
RoleTexts ==
    { [text |-> <<"M", "a", "n", "a", "g", "e", "r", " ">>, stored |-> Manager],
      [text |-> <<"a", "d", "m", "i", "n">>, stored |-> Buyer],
      [text |-> <<" ", "\t", "O", "W", "N", "E", "R", "\n">>, stored |-> Owner],
      [text |-> <<"b", "u", "y", "e", "r">>, stored |-> Buyer],
      [text |-> <<"o", "w", "n", " ", "e", "r">>, stored |-> Buyer],
      [text |-> <<"m", "a", "n", "a", "g", "e", "r", "s">>, stored |-> Buyer],
      [text |-> <<" ">>, stored |-> Buyer],
      [text |-> <<>>, stored |-> Buyer],
      [text |-> None, stored |-> Buyer] }

\* The other form values of the add-contact requests.
ContactCards ==
    { [name |-> Text("a"), phone |-> None, email |-> None, notes |-> None],
      [name |-> Text("b"), phone |-> Text("5"), email |-> Text("@"), notes |-> <<>>] }

\* Every order "order by created_at desc" can give the rows R: rows of one
\* created_at come in any order.
Descending(R) ==
    LET n == Cardinality(R)
    IN  {s \in [1..n -> R] :
            /\ \A i, j \in 1..n : i # j => s[i] # s[j]
            /\ \A i, j \in 1..n : i < j => s[i].created_at >= s[j].created_at}

\* The dict fetch_contacts makes of a row.
ContactDict(r) ==
    [id |-> r.id, name |-> r.name, role |-> r.role,
     phone |-> r.phone, email |-> r.email, notes |-> r.notes]

\* fetch_contacts with "order by created_at asc".
fetch_contacts_Ascending(T, a) ==
    LET R == {r \in T : r.account_id = a}
        n == Cardinality(R)
    IN  {[i \in 1..n |-> ContactDict(s[i])] :
            s \in {u \in [1..n -> R] :
                     /\ \A i, j \in 1..n : i # j => u[i] # u[j]
                     /\ \A i, j \in 1..n : i < j => u[i].created_at <= u[j].created_at}}

\* The select of fetch_contacts on the committed rows T: every list it can
\* return for account a.
fetch_contacts(T, a) ==
    {[i \in 1..Len(s) |-> ContactDict(s[i])] :
        s \in Descending({r \in T : r.account_id = a})}

\* The row insert_contact's statement adds in a transaction begun at ts:
\* id is gen_random_uuid(), a fresh id, modelled as the count of the adds so
\* far; created_at is the column default now().
ContactRow(T, q, ts) ==
    [id |-> Cardinality(T) + 1, account_id |-> q.account_id, name |-> q.name,
     role |-> q.role, phone |-> q.phone, email |-> q.email, notes |-> q.notes,
     created_at |-> ts]

Persisted == [contacts_table |-> contacts_table, contacts |-> contacts]

InitContacts ==
    /\ today = Date(LastYear, 3, 3)
    /\ call = [fn |-> "none", d |-> NoDate, s |-> None]
    /\ result = Ok(NoDate)
    /\ wpc = "off"
    /\ now = 0
    /\ started = 0
    /\ PlanStoreAtRest
    /\ contacts_table \in BOOLEAN
    /\ ContactStoreAtRest

\* ui_add_contact up to insert_contact's call of ensure_contacts_table.
ui_add_contact(a, card, rt) ==
    /\ cpc = "idle"
    /\ started < MaxRequests
    /\ started' = started + 1
    /\ creq' = [op |-> "add", account_id |-> a, name |-> card.name,
                role_text |-> rt, role |-> role_allowlist(rt),
                phone |-> card.phone, email |-> card.email, notes |-> card.notes]
    /\ cret' = Listed(<<>>)
    /\ snap' = Persisted
    /\ cpc' = "ensure"
    /\ UNCHANGED <<today, now, wvars, pvars, contacts_table, contacts>>

\* fetch_contacts up to its call of ensure_contacts_table.
ListContactsBegin(a) ==
    /\ cpc = "idle"
    /\ started < MaxRequests
    /\ started' = started + 1
    /\ creq' = [NoContactReq EXCEPT !.op = "list", !.account_id = a]
    /\ cret' = Listed(<<>>)
    /\ snap' = Persisted
    /\ cpc' = "ensure"
    /\ UNCHANGED <<today, now, wvars, pvars, contacts_table, contacts>>

\* ensure_contacts_table: create table if not exists, committed in a
\* transaction of its own.
ensure_contacts_table ==
    /\ cpc = "ensure"
    /\ now' = now + 1
    /\ contacts_table' = TRUE
    /\ cpc' = IF creq.op = "add" THEN "insert" ELSE "select"
    /\ UNCHANGED <<today, started, wvars, pvars, contacts, creq, cret, snap>>

\* ensure_contacts_table fails at connect, execute or commit.
EnsureFails ==
    /\ cpc = "ensure"
    /\ cret' = ContactFailed("OperationalError")
    /\ cpc' = "done"
    /\ UNCHANGED <<today, now, started, wvars, pvars, contacts_table, contacts, creq, snap>>

\* The insert of insert_contact, committed; ui_add_contact then answers
\* with its redirect.
insert_contact ==
    /\ cpc = "insert"
    /\ contacts_table
    /\ creq.account_id \in Accounts
    /\ now' = now + 1
    /\ contacts' = contacts \cup {ContactRow(contacts, creq, now + 1)}
    /\ cpc' = "done"
    /\ UNCHANGED <<today, started, wvars, pvars, contacts_table, creq, cret, snap>>

\* The insert names no row of public.accounts: the foreign key refuses it.
InsertRefused ==
    /\ cpc = "insert"
    /\ creq.account_id \notin Accounts
    /\ now' = now + 1
    /\ cret' = ContactFailed("ForeignKeyViolation")
    /\ cpc' = "done"
    /\ UNCHANGED <<today, started, wvars, pvars, contacts_table, contacts, creq, snap>>

\* The second connection of insert_contact or fetch_contacts fails at
\* connect, execute or commit.
StatementFails ==
    /\ cpc \in {"insert", "select"}
    /\ cret' = ContactFailed("OperationalError")
    /\ cpc' = "done"
    /\ UNCHANGED <<today, now, started, wvars, pvars, contacts_table, contacts, creq, snap>>

\* The select of fetch_contacts and its return.
SelectContacts ==
    /\ cpc = "select"
    /\ contacts_table
    /\ now' = now + 1
    /\ \E s \in fetch_contacts(contacts, creq.account_id) : cret' = Listed(s)
    /\ cpc' = "done"
    /\ UNCHANGED <<today, started, wvars, pvars, contacts_table, contacts, creq, snap>>

\* The response leaves; the next request can come.
ContactRespond ==
    /\ cpc = "done"
    /\ cpc' = "idle"
    /\ creq' = NoContactReq
    /\ cret' = Listed(<<>>)
    /\ snap' = Persisted
    /\ UNCHANGED <<today, now, started, wvars, pvars, contacts_table, contacts>>

NextContacts ==
    \/ \E a \in AccountIds, card \in ContactCards, rt \in RoleTexts :
          ui_add_contact(a, card, rt.text)
    \/ \E a \in AccountIds : ListContactsBegin(a)
    \/ ensure_contacts_table
    \/ EnsureFails
    \/ insert_contact
    \/ InsertRefused
    \/ StatementFails
    \/ SelectContacts
    \/ ContactRespond

SpecContacts == InitContacts /\ [][NextContacts]_vars

AddedOk == cpc = "done" /\ creq.op = "add" /\ ~cret.raised

\* The row of the latest add.
Newest == CHOOSE r \in contacts : r.id = Cardinality(contacts)

\* C7: after any sequence of add-contact requests every stored contact's
\* role is buyer, manager or owner: the role text trimmed and lower-cased
\* when that is an allowed role ("Manager " gives manager), buyer otherwise
\* ("admin" gives buyer); and the role raises no error.
C7_RoleIsAllowed ==
    /\ \A r \in contacts : r.role \in AllowedRoles
    /\ cret.raised => cret.exc \in {"OperationalError", "ForeignKeyViolation"}
    /\ AddedOk =>
          \E rt \in RoleTexts : rt.text = creq.role_text /\ Newest.role = rt.stored

\* "admin" has been stored, after "Manager " was.
C7_Witness ==
    /\ AddedOk
    /\ creq.role_text = <<"a", "d", "m", "i", "n">>
    /\ Newest.role = Buyer
    /\ \E r \in contacts : r.role = Manager /\ r.id < Newest.id

ListedOk == cpc = "done" /\ creq.op = "list" /\ ~cret.raised

\* C8: list(a) returns every contact added for a, each once, and none of
\* another account, a contact added later before every contact added
\* earlier.
C8_NewestFirst ==
    ListedOk =>
        LET s    == cret.value
            mine == {r \in contacts : r.account_id = creq.account_id}
        IN  /\ Len(s) = Cardinality(mine)
            /\ {s[i] : i \in 1..Len(s)} = {ContactDict(r) : r \in mine}
            /\ \A i, j \in 1..Len(s) : i < j => s[i].id > s[j].id

\* A list of two contacts has been returned.
C8_Witness == ListedOk /\ Len(cret.value) = 2

\* C9: a store operation that fails leaves the persisted state exactly as
\* it was when the operation began.
C9_FailureLeavesNoWrite == (cpc = "done" /\ cret.raised) => Persisted = snap

====
